---- MODULE Spec2Model ----
(***************************************************************************)
(* Room-scoped presence and broadcast messaging core of the websocket-chat *)
(* demo (experiments/_attic/api-demos/websocket-chat/server.js).           *)
(*                                                                         *)
(* Strings that the code compares or lower-cases (room names, room keys,   *)
(* socket ids) are sequences of character codes; display names and message *)
(* texts, which the code only copies, are TLA+ strings.                    *)
(***************************************************************************)
EXTENDS Integers, Sequences, FiniteSets, TLC

VARIABLES
    conn,         \* socket id -> "idle" | "open" | "closed"   (transport)
    socketRooms,  \* socket id -> set of broadcast groups the socket is in
    users,        \* the users Map: socket id -> session
    rooms,        \* the rooms Map: room key -> Room
    roomOrder,    \* insertion order of the rooms Map
    now,          \* the clock read by Date.now() / new Date()
    sent,         \* the outbound events of the last handler, in emission order
    last,         \* the last inbound client event
    log,          \* history variable: room key -> every message ever added
    entered,      \* history variable: socket id -> key of the room last entered
    script,       \* the membership events the scripted client has sent so far
    inbox,        \* socket id -> the outbound events delivered to it, in order
    apiUsers,     \* REST demo: the users array
    posts,        \* REST demo: the posts array
    nextUserId,   \* REST demo: the id of the next user
    nextPostId,   \* REST demo: the id of the next post
    req,          \* REST demo: the last request
    res           \* REST demo: the response to it

apiVars == <<apiUsers, posts, nextUserId, nextPostId, req, res>>
chatVars == <<conn, socketRooms, users, rooms, roomOrder, now, sent, last, log, entered,
              script, inbox>>
vars == <<conn, socketRooms, users, rooms, roomOrder, now, sent, last, log, entered,
          script, inbox, apiUsers, posts, nextUserId, nextPostId, req, res>>

----
\* Bounds of the model.
MaxConns == 2
MaxClock == 1
MaxSends == 2
MaxHistorySends == 102
MaxOrderEvents == 4
MaxApiCreates == 2
MaxReuseSends == 1
MaxCrudCreates == 2

\* const MAX_HISTORY = 100;
MAX_HISTORY == 100

----
\* Character data.
Range(s) == {s[i] : i \in 1..Len(s)}

\* a key taken as it was typed
toLowerCaseNot(s) == s

\* String.prototype.toLowerCase on a sequence of character codes.
toLowerCase(s) == [i \in 1..Len(s) |-> IF s[i] \in 65..90 THEN s[i] + 32 ELSE s[i]]

\* 'General', 'Random', 'Tech', 'Gaming'
defaultRooms ==
    << <<71, 101, 110, 101, 114, 97, 108>>,
       <<82, 97, 110, 100, 111, 109>>,
       <<84, 101, 99, 104>>,
       <<71, 97, 109, 105, 110, 103>> >>

\* the default of the join event's room parameter: 'general'
DefaultJoinRoom == <<103, 101, 110, 101, 114, 97, 108>>

\* socket.id of the i-th connection: "s1", "s2", ...
SocketId(i) == <<115, 48 + i>>
Sockets == {SocketId(i) : i \in 1..MaxConns}

\* Inputs of the client events.
\* The display name the i-th client gives itself.
DisplayNames == <<"alice", "bob", "carol", "dave">>
UsernameOf(id) == DisplayNames[CHOOSE i \in 1..MaxConns : SocketId(i) = id]
Texts == {"hello"}
\* 'General', 'Lab', 'lab'
RoomNames ==
    { <<71, 101, 110, 101, 114, 97, 108>>,
      <<76, 97, 98>>,
      <<108, 97, 98>> }
\* an id no connection has: "zz"
UnknownId == <<122, 122>>
TargetIds == Sockets \cup {toLowerCase(r) : r \in RoomNames} \cup {UnknownId}

JoinData(id) == [username : {UsernameOf(id)}, room : RoomNames] \cup [username : {UsernameOf(id)}]

\* JavaScript's undefined, where a Map lookup misses.
Undefined == [undefined |-> TRUE]
NoData == <<>>
NoRoom == <<>>

----
\* The Maps of the program as functions on their key sets.
Has(map, key) == key \in DOMAIN map
Get(map, key) == IF key \in DOMAIN map THEN map[key] ELSE Undefined
Put(map, key, value) == (key :> value) @@ map
\* a delete that misses the key
DeleteNothing(map, key) == map
Delete(map, key) == [k \in DOMAIN map \ {key} |-> map[k]]

----
\* class Room
NewRoom(name, t) == [name |-> name, users |-> <<>>, messages |-> <<>>, createdAt |-> t]

\* addUser that adds nobody
AddUserNobody(room, userId) == room

\* this.users.add(userId): a Set keeps insertion order and holds an id once
AddUser(room, userId) ==
    [room EXCEPT !.users = IF userId \in Range(@) THEN @ ELSE Append(@, userId)]

\* removeUser on an array, by splice(indexOf(userId), 1): for an id that is not
\* in it, indexOf gives -1 and the last element goes.
RemoveUserSplice(room, userId) ==
    [room EXCEPT !.users = IF userId \in Range(@)
                             THEN SelectSeq(@, LAMBDA u : u # userId)
                             ELSE SubSeq(@, 1, Len(@) - 1)]

\* removeUser that looks for the wrong key and so deletes nothing.
RemoveUserNothing(room, userId) == room

\* this.users.delete(userId)
RemoveUser(room, userId) ==
    [room EXCEPT !.users = SelectSeq(@, LAMBDA u : u # userId)]

\* AddMessage with unshift for push: the new message goes in front.
AddMessageFront(room, message) ==
    LET pushed == <<message>> \o room.messages
    IN  [room EXCEPT !.messages =
            IF Len(pushed) > MAX_HISTORY THEN Tail(pushed) ELSE pushed]

\* AddMessage without the eviction.
AddMessageNoShift(room, message) ==
    [room EXCEPT !.messages = Append(@, message)]

\* AddMessage with pop for shift: past the bound the newest message is dropped.
AddMessagePop(room, message) ==
    LET pushed == Append(room.messages, message)
    IN  [room EXCEPT !.messages =
            IF Len(pushed) > MAX_HISTORY THEN SubSeq(pushed, 1, Len(pushed) - 1)
            ELSE pushed]

\* push, then shift once the length exceeds MAX_HISTORY
AddMessage(room, message) ==
    LET pushed == Append(room.messages, message)
    IN  [room EXCEPT !.messages =
            IF Len(pushed) > MAX_HISTORY THEN Tail(pushed) ELSE pushed]

GetUserCount(room) == Cardinality(Range(room.users))

\* users.get(id)?.username
UsernameIn(us, id) == IF Has(us, id) THEN [username |-> us[id].username] ELSE Undefined

GetInfo(room, us) ==
    [name      |-> room.name,
     userCount |-> GetUserCount(room),
     users     |-> [i \in 1..Len(room.users) |-> UsernameIn(us, room.users[i])],
     createdAt |-> room.createdAt]

----
\* socket.io: who an emit reaches.  A broadcast group holds the sockets that
\* joined it; every open socket is in the group named by its own id.
InGroup(sr, group) == {s \in Sockets : group \in sr[s]}

\* socket.emit(ev, data)
SocketEmit(id, ev, data) == [ev |-> ev, to |-> {id}, data |-> data]
\* socket.to(group).emit(ev, data): the group without the emitting socket
SocketTo(sr, id, group, ev, data) ==
    [ev |-> ev, to |-> InGroup(sr, group) \ {id}, data |-> data]
\* io.to(group).emit(ev, data)
IoTo(sr, group, ev, data) == [ev |-> ev, to |-> InGroup(sr, group), data |-> data]

----
\* Payloads.
Welcome(room, username, t) ==
    [user |-> "System", text |-> [tpl |-> "Welcome to", room |-> room, username |-> username],
     timestamp |-> t, type |-> "system"]
HasJoined(username, t) ==
    [user |-> "System", text |-> [tpl |-> "has joined the room", username |-> username],
     timestamp |-> t, type |-> "system"]
HasLeft(username, t) ==
    [user |-> "System", text |-> [tpl |-> "has left the room", username |-> username],
     timestamp |-> t, type |-> "system"]

\* { users: Array.from(room.users).map(id => users.get(id)), count: room.getUserCount() }
UsersUpdate(room, us) ==
    [users |-> [i \in 1..Len(room.users) |-> Get(us, room.users[i])],
     count |-> GetUserCount(room)]

\* rooms-list built from the rooms known at startup only.
RoomsListAtStartup(rs, order, us) ==
    [i \in 1..Len(defaultRooms) |-> GetInfo(rs[toLowerCase(defaultRooms[i])], us)]

\* Array.from(rooms.values()).map(r => r.getInfo())
RoomsList(rs, order, us) == [i \in 1..Len(order) |-> GetInfo(rs[order[i]], us)]

\* the history handed over newest first
RoomHistoryNewestFirst(room) ==
    [messages |-> [i \in 1..Len(room.messages) |->
                      room.messages[Len(room.messages) + 1 - i]]]

\* socket.emit('room-history', room.messages)
RoomHistory(room) == [messages |-> room.messages]

\* a chat message built with the type of an announcement
UserMessageAsSystem(user, id, data, t) ==
    [id |-> t, user |-> user.username, userId |-> id, text |-> data.text,
     timestamp |-> t, type |-> "system"]

UserMessage(user, id, data, t) ==
    [id |-> t, user |-> user.username, userId |-> id, text |-> data.text,
     timestamp |-> t, type |-> "user"]

PrivateMessageOf(sender, id, data, t) ==
    [id |-> t, from |-> sender.username, fromId |-> id, to |-> data.to,
     text |-> data.text, timestamp |-> t, type |-> "private"]

----
\* The REST demo (a process of its own, with its own users array): its data.
\* Values of a request: a number, a string that the handler parses (character
\* codes), a text that it only stores or tests, or undefined.
Num(n) == [num |-> n]
Str(codes) == [str |-> codes]
Text(t) == [text |-> t]
NaN == [nan |-> TRUE]

\* JavaScript truthiness, as used by !x and x && y
Truthy(v) ==
    IF v = Undefined \/ v = NaN THEN FALSE
    ELSE IF "num" \in DOMAIN v THEN v.num # 0
    ELSE IF "str" \in DOMAIN v THEN v.str # <<>>
    ELSE v.text # ""

\* the value of the longest prefix of decimal digits
RECURSIVE DigitsValue(_, _)
DigitsValue(codes, acc) ==
    IF codes = <<>> \/ Head(codes) \notin 48..57 THEN acc
    ELSE DigitsValue(Tail(codes), 10 * acc + (Head(codes) - 48))

\* parseInt: a number is itself, a string gives the number its leading digits
\* spell, NaN if it has none
parseInt(v) ==
    IF v = Undefined \/ v = NaN THEN NaN
    ELSE IF "num" \in DOMAIN v THEN v
    ELSE IF "str" \in DOMAIN v
           THEN IF v.str # <<>> /\ Head(v.str) \in 48..57
                  THEN Num(DigitsValue(v.str, 0)) ELSE NaN
    ELSE NaN

\* let users = [...], let posts = [...]
InitialUsers ==
    << [id |-> 1, name |-> Text("Alice Johnson"), email |-> Text("alice@example.com"),
        role |-> Text("admin")],
       [id |-> 2, name |-> Text("Bob Smith"), email |-> Text("bob@example.com"),
        role |-> Text("user")],
       [id |-> 3, name |-> Text("Charlie Davis"), email |-> Text("charlie@example.com"),
        role |-> Text("user")] >>
InitialPosts ==
    << [id |-> 1, userId |-> 1, title |-> Text("First Post"),
        content |-> Text("This is the first post"), createdAt |-> 0],
       [id |-> 2, userId |-> 2, title |-> Text("Second Post"),
        content |-> Text("This is the second post"), createdAt |-> 0] >>

----
\* State after construction: the default rooms, no connection.
DefaultKeys == [i \in 1..Len(defaultRooms) |-> toLowerCase(defaultRooms[i])]

Init ==
    /\ conn = [s \in Sockets |-> "idle"]
    /\ socketRooms = [s \in Sockets |-> {}]
    /\ users = [s \in {} |-> Undefined]
    /\ rooms = [k \in Range(DefaultKeys) |->
                  NewRoom(defaultRooms[CHOOSE i \in 1..Len(defaultRooms) : DefaultKeys[i] = k], 0)]
    /\ roomOrder = DefaultKeys
    /\ now = 0
    /\ sent = <<>>
    /\ last = [ev |-> "init", id |-> NoRoom, data |-> NoData]
    /\ log = [k \in Range(DefaultKeys) |-> <<>>]
    /\ entered = [s \in Sockets |-> NoRoom]
    /\ script = <<>>
    /\ inbox = [s \in Sockets |-> <<>>]
    /\ apiUsers = InitialUsers
    /\ posts = InitialPosts
    /\ nextUserId = 4
    /\ nextPostId = 3
    /\ req = [method |-> "none"]
    /\ res = [status |-> 0]

\* A handler that returns at its guard: nothing is mutated, nothing emitted.
Return(ev, id, data) ==
    /\ last' = [ev |-> ev, id |-> id, data |-> data]
    /\ sent' = <<>>
    /\ UNCHANGED <<conn, socketRooms, users, rooms, roomOrder, now, log, entered>>

\* The clock advances between events.
Tick ==
    /\ now < MaxClock
    /\ now' = now + 1
    /\ last' = [ev |-> "tick", id |-> NoRoom, data |-> NoData]
    /\ sent' = <<>>
    /\ UNCHANGED <<conn, socketRooms, users, rooms, roomOrder, log, entered>>

\* io.on('connection'): the i-th connection gets the i-th socket id and is put
\* in the group of its own id.
Connect(id) ==
    /\ conn[id] = "idle"
    /\ \A i \in 1..MaxConns : \A j \in 1..(i - 1) :
          id = SocketId(i) => conn[SocketId(j)] # "idle"
    /\ conn' = [conn EXCEPT ![id] = "open"]
    /\ socketRooms' = [socketRooms EXCEPT ![id] = {id}]
    /\ last' = [ev |-> "connection", id |-> id, data |-> NoData]
    /\ sent' = <<>>
    /\ UNCHANGED <<users, rooms, roomOrder, now, log, entered>>

\* join that builds the room anew on every join
JoinBuildsRoom(id, data) ==
    /\ conn[id] = "open"
    /\ LET username == data.username
           room     == IF "room" \in DOMAIN data THEN data.room ELSE DefaultJoinRoom
           roomKey  == toLowerCase(room)
           users1   == Put(users, id, [id |-> id, username |-> username,
                                       room |-> roomKey, joinedAt |-> now])
           sr1      == [socketRooms EXCEPT ![id] = @ \cup {roomKey}]
           created  == ~Has(rooms, roomKey)
           rooms1   == [k \in DOMAIN rooms \cup {roomKey} |->
                          IF k = roomKey THEN NewRoom(room, now) ELSE rooms[k]]
           rooms2   == [rooms1 EXCEPT ![roomKey] = AddUser(@, id)]
           order1   == IF created THEN Append(roomOrder, roomKey) ELSE roomOrder
           roomObj  == rooms2[roomKey]
       IN  /\ users' = users1
           /\ socketRooms' = sr1
           /\ rooms' = rooms2
           /\ roomOrder' = order1
           /\ log' = IF created THEN Put(log, roomKey, <<>>) ELSE log
           /\ entered' = [entered EXCEPT ![id] = roomKey]
           /\ sent' = << SocketEmit(id, "message", Welcome(room, username, now)),
                         SocketEmit(id, "room-history", RoomHistory(roomObj)),
                         SocketTo(sr1, id, roomKey, "message", HasJoined(username, now)),
                         IoTo(sr1, roomKey, "users-update", UsersUpdate(roomObj, users1)),
                         SocketEmit(id, "rooms-list",
                                    [rooms |-> RoomsList(rooms2, order1, users1)]) >>
           /\ last' = [ev |-> "join", id |-> id, data |-> data]
           /\ UNCHANGED <<conn, now>>

\* join that records the room in the session as it was typed
JoinRecordsName(id, data) ==
    /\ conn[id] = "open"
    /\ LET username == data.username
           room     == IF "room" \in DOMAIN data THEN data.room ELSE DefaultJoinRoom
           roomKey  == toLowerCase(room)
           users1   == Put(users, id, [id |-> id, username |-> username,
                                       room |-> room, joinedAt |-> now])
           sr1      == [socketRooms EXCEPT ![id] = @ \cup {roomKey}]
           created  == ~Has(rooms, roomKey)
           rooms1   == IF created THEN Put(rooms, roomKey, NewRoom(room, now)) ELSE rooms
           rooms2   == [rooms1 EXCEPT ![roomKey] = AddUser(@, id)]
           order1   == IF created THEN Append(roomOrder, roomKey) ELSE roomOrder
           roomObj  == rooms2[roomKey]
       IN  /\ users' = users1
           /\ socketRooms' = sr1
           /\ rooms' = rooms2
           /\ roomOrder' = order1
           /\ log' = IF created THEN Put(log, roomKey, <<>>) ELSE log
           /\ entered' = [entered EXCEPT ![id] = roomKey]
           /\ sent' = << SocketEmit(id, "message", Welcome(room, username, now)),
                         SocketEmit(id, "room-history", RoomHistory(roomObj)),
                         SocketTo(sr1, id, roomKey, "message", HasJoined(username, now)),
                         IoTo(sr1, roomKey, "users-update", UsersUpdate(roomObj, users1)),
                         SocketEmit(id, "rooms-list",
                                    [rooms |-> RoomsList(rooms2, order1, users1)]) >>
           /\ last' = [ev |-> "join", id |-> id, data |-> data]
           /\ UNCHANGED <<conn, now>>

\* socket.on('join')
Join(id, data) ==
    /\ conn[id] = "open"
    /\ LET username == data.username
           room     == IF "room" \in DOMAIN data THEN data.room ELSE DefaultJoinRoom
           roomKey  == toLowerCase(room)
           users1   == Put(users, id, [id |-> id, username |-> username,
                                       room |-> roomKey, joinedAt |-> now])
           sr1      == [socketRooms EXCEPT ![id] = @ \cup {roomKey}]
           created  == ~Has(rooms, roomKey)
           rooms1   == IF created THEN Put(rooms, roomKey, NewRoom(room, now)) ELSE rooms
           rooms2   == [rooms1 EXCEPT ![roomKey] = AddUser(@, id)]
           order1   == IF created THEN Append(roomOrder, roomKey) ELSE roomOrder
           roomObj  == rooms2[roomKey]
       IN  /\ users' = users1
           /\ socketRooms' = sr1
           /\ rooms' = rooms2
           /\ roomOrder' = order1
           /\ log' = IF created THEN Put(log, roomKey, <<>>) ELSE log
           /\ entered' = [entered EXCEPT ![id] = roomKey]
           /\ sent' = << SocketEmit(id, "message", Welcome(room, username, now)),
                         SocketEmit(id, "room-history", RoomHistory(roomObj)),
                         SocketTo(sr1, id, roomKey, "message", HasJoined(username, now)),
                         IoTo(sr1, roomKey, "users-update", UsersUpdate(roomObj, users1)),
                         SocketEmit(id, "rooms-list",
                                    [rooms |-> RoomsList(rooms2, order1, users1)]) >>
           /\ last' = [ev |-> "join", id |-> id, data |-> data]
           /\ UNCHANGED <<conn, now>>

\* send-message with one messages array shared by all rooms
SendMessageShared(id, data) ==
    /\ conn[id] = "open"
    /\ IF ~Has(users, id) THEN Return("send-message", id, data)
       ELSE LET user    == users[id]
                message == UserMessage(user, id, data, now)
            IN  /\ rooms' = [k \in DOMAIN rooms |-> AddMessage(rooms[k], message)]
                /\ log' = [k \in DOMAIN log |-> Append(log[k], message)]
                /\ sent' = << IoTo(socketRooms, user.room, "message", message) >>
                /\ last' = [ev |-> "send-message", id |-> id, data |-> data]
                /\ UNCHANGED <<conn, socketRooms, users, roomOrder, now, entered>>

\* socket.on('send-message')
SendMessage(id, data) ==
    /\ conn[id] = "open"
    /\ IF ~Has(users, id) THEN Return("send-message", id, data)
       ELSE LET user    == users[id]
                message == UserMessage(user, id, data, now)
                stored  == Has(rooms, user.room)
            IN  /\ rooms' = IF stored
                              THEN [rooms EXCEPT ![user.room] = AddMessage(@, message)]
                              ELSE rooms
                /\ log' = IF stored THEN [log EXCEPT ![user.room] = Append(@, message)]
                                    ELSE log
                /\ sent' = << IoTo(socketRooms, user.room, "message", message) >>
                /\ last' = [ev |-> "send-message", id |-> id, data |-> data]
                /\ UNCHANGED <<conn, socketRooms, users, roomOrder, now, entered>>

\* socket.on('typing')
Typing(id) ==
    /\ conn[id] = "open"
    /\ IF ~Has(users, id) THEN Return("typing", id, NoData)
       ELSE LET user == users[id]
            IN  /\ sent' = << SocketTo(socketRooms, id, user.room, "user-typing",
                                       [username |-> user.username, userId |-> id]) >>
                /\ last' = [ev |-> "typing", id |-> id, data |-> NoData]
                /\ UNCHANGED <<conn, socketRooms, users, rooms, roomOrder, now, log, entered>>

\* socket.on('stop-typing')
StopTyping(id) ==
    /\ conn[id] = "open"
    /\ IF ~Has(users, id) THEN Return("stop-typing", id, NoData)
       ELSE LET user == users[id]
            IN  /\ sent' = << SocketTo(socketRooms, id, user.room, "user-stop-typing",
                                       [userId |-> id]) >>
                /\ last' = [ev |-> "stop-typing", id |-> id, data |-> NoData]
                /\ UNCHANGED <<conn, socketRooms, users, rooms, roomOrder, now, log, entered>>

\* socket.on('switch-room'), past its guard
SwitchRoomBody(id, data) ==
    LET user       == users[id]
        newRoomKey == toLowerCase(data.room)
        oldRoom    == user.room
        \* leave old room
        sr1        == [socketRooms EXCEPT ![id] = @ \ {oldRoom}]
        hasOld     == Has(rooms, oldRoom)
        rooms1     == IF hasOld
                        THEN [rooms EXCEPT ![oldRoom] = RemoveUser(@, id)]
                        ELSE rooms
        oldEmits   == IF hasOld
                        THEN << SocketTo(sr1, id, oldRoom, "message",
                                         HasLeft(user.username, now)),
                                IoTo(sr1, oldRoom, "users-update",
                                     UsersUpdate(rooms1[oldRoom], users)) >>
                        ELSE <<>>
        \* join new room
        sr2        == [sr1 EXCEPT ![id] = @ \cup {newRoomKey}]
        users1     == [users EXCEPT ![id].room = newRoomKey]
        created    == ~Has(rooms1, newRoomKey)
        rooms2     == IF created
                        THEN Put(rooms1, newRoomKey, NewRoom(data.room, now))
                        ELSE rooms1
        rooms3     == [rooms2 EXCEPT ![newRoomKey] = AddUser(@, id)]
        newRoomObj == rooms3[newRoomKey]
    IN  /\ socketRooms' = sr2
        /\ users' = users1
        /\ rooms' = rooms3
        /\ roomOrder' = IF created THEN Append(roomOrder, newRoomKey) ELSE roomOrder
        /\ log' = IF created THEN Put(log, newRoomKey, <<>>) ELSE log
        /\ entered' = [entered EXCEPT ![id] = newRoomKey]
        /\ sent' = oldEmits \o
                   << SocketEmit(id, "room-history", RoomHistory(newRoomObj)),
                      SocketTo(sr2, id, newRoomKey, "message",
                               HasJoined(user.username, now)),
                      IoTo(sr2, newRoomKey, "users-update",
                           UsersUpdate(newRoomObj, users1)) >>
        /\ last' = [ev |-> "switch-room", id |-> id, data |-> data]
        /\ UNCHANGED <<conn, now>>

\* switch-room with the guard placed after the join of the new room: a
\* connection without a session is still put into the room.
SwitchRoomLateGuard(id, data) ==
    /\ conn[id] = "open"
    /\ IF Has(users, id) THEN SwitchRoomBody(id, data)
       ELSE LET newRoomKey == toLowerCase(data.room)
                sr1        == [socketRooms EXCEPT ![id] = @ \cup {newRoomKey}]
                created    == ~Has(rooms, newRoomKey)
                rooms1     == IF created
                                THEN Put(rooms, newRoomKey, NewRoom(data.room, now))
                                ELSE rooms
            IN  /\ socketRooms' = sr1
                /\ rooms' = [rooms1 EXCEPT ![newRoomKey] = AddUser(@, id)]
                /\ roomOrder' = IF created THEN Append(roomOrder, newRoomKey) ELSE roomOrder
                /\ log' = IF created THEN Put(log, newRoomKey, <<>>) ELSE log
                /\ sent' = <<>>
                /\ last' = [ev |-> "switch-room", id |-> id, data |-> data]
                /\ UNCHANGED <<conn, users, now, entered>>

\* socket.on('switch-room')
SwitchRoom(id, data) ==
    /\ conn[id] = "open"
    /\ IF ~Has(users, id) THEN Return("switch-room", id, data)
       ELSE SwitchRoomBody(id, data)

\* socket.on('private-message')
PrivateMessage(id, data) ==
    /\ conn[id] = "open"
    /\ IF ~Has(users, id) THEN Return("private-message", id, data)
       ELSE LET sender  == users[id]
                message == PrivateMessageOf(sender, id, data, now)
            IN  /\ sent' = << SocketTo(socketRooms, id, data.toId, "private-message", message),
                              SocketEmit(id, "private-message", message) >>
                /\ last' = [ev |-> "private-message", id |-> id, data |-> data]
                /\ UNCHANGED <<conn, socketRooms, users, rooms, roomOrder, now, log, entered>>

\* disconnect that also drops the room once its last member is gone
DisconnectPrunes(id) ==
    /\ conn[id] = "open"
    /\ conn' = [conn EXCEPT ![id] = "closed"]
    /\ LET sr1 == [socketRooms EXCEPT ![id] = {}]
       IN  /\ socketRooms' = sr1
           /\ last' = [ev |-> "disconnect", id |-> id, data |-> NoData]
           /\ IF ~Has(users, id)
                THEN /\ sent' = <<>>
                     /\ UNCHANGED <<users, rooms, roomOrder, entered>>
                ELSE LET user    == users[id]
                         hasRoom == Has(rooms, user.room)
                         rooms1  == IF hasRoom
                                      THEN [rooms EXCEPT ![user.room] = RemoveUser(@, id)]
                                      ELSE rooms
                         pruned  == hasRoom /\ rooms1[user.room].users = <<>>
                     IN  /\ rooms' = IF pruned THEN Delete(rooms1, user.room) ELSE rooms1
                         /\ roomOrder' = IF pruned
                                           THEN SelectSeq(roomOrder, LAMBDA k : k # user.room)
                                           ELSE roomOrder
                         /\ sent' = IF hasRoom
                                      THEN << SocketTo(sr1, id, user.room, "message",
                                                       HasLeft(user.username, now)),
                                              IoTo(sr1, user.room, "users-update",
                                                   UsersUpdate(rooms1[user.room], users)) >>
                                      ELSE <<>>
                         /\ users' = Delete(users, id)
                         /\ entered' = [entered EXCEPT ![id] = NoRoom]
           /\ UNCHANGED <<now, log>>

\* The transport closes: socket.io takes the socket out of every group, then
\* runs socket.on('disconnect').
Disconnect(id) ==
    /\ conn[id] = "open"
    /\ conn' = [conn EXCEPT ![id] = "closed"]
    /\ LET sr1 == [socketRooms EXCEPT ![id] = {}]
       IN  /\ socketRooms' = sr1
           /\ last' = [ev |-> "disconnect", id |-> id, data |-> NoData]
           /\ IF ~Has(users, id)
                THEN /\ sent' = <<>>
                     /\ UNCHANGED <<users, rooms, entered>>
                ELSE LET user    == users[id]
                         hasRoom == Has(rooms, user.room)
                         rooms1  == IF hasRoom
                                      THEN [rooms EXCEPT ![user.room] = RemoveUser(@, id)]
                                      ELSE rooms
                     IN  /\ rooms' = rooms1
                         /\ sent' = IF hasRoom
                                      THEN << SocketTo(sr1, id, user.room, "message",
                                                       HasLeft(user.username, now)),
                                              IoTo(sr1, user.room, "users-update",
                                                   UsersUpdate(rooms1[user.room], users)) >>
                                      ELSE <<>>
                         /\ users' = Delete(users, id)
                         /\ entered' = [entered EXCEPT ![id] = NoRoom]
           /\ UNCHANGED <<roomOrder, now, log>>

----
SwitchData == [room : RoomNames]
MessageData == [text : Texts]
PrivateData == [to : {"bob"}, toId : TargetIds, text : Texts]

RECURSIVE SumLen(_, _)
SumLen(f, keys) ==
    IF keys = {} THEN 0
    ELSE LET k == CHOOSE x \in keys : TRUE IN Len(f[k]) + SumLen(f, keys \ {k})
\* the number of messages stored so far
Sends == SumLen(log, DOMAIN log)

\* script and inbox are kept only by the specifications that follow one
\* client's script or the deliveries; everywhere else they stay as they are.
Unobserved == UNCHANGED <<script, inbox>> /\ UNCHANGED apiVars

Next ==
    \/ \E id \in Sockets : Connect(id) /\ Unobserved
    \/ \E id \in Sockets : \E data \in JoinData(id) : Join(id, data) /\ Unobserved
    \/ \E id \in Sockets, data \in MessageData :
          Sends < MaxSends /\ SendMessage(id, data) /\ Unobserved
    \/ \E id \in Sockets : Typing(id) /\ Unobserved
    \/ \E id \in Sockets : StopTyping(id) /\ Unobserved
    \/ \E id \in Sockets, data \in SwitchData : SwitchRoom(id, data) /\ Unobserved
    \/ \E id \in Sockets, data \in PrivateData : PrivateMessage(id, data) /\ Unobserved
    \/ \E id \in Sockets : Disconnect(id) /\ Unobserved

\* Every client event of every connection, all within one reading of the
\* clock (no handler inspects the clock: it is only copied into records).
Spec == Init /\ [][Next]_vars

\* The same, with the clock advancing between events.
NextClock ==
    \/ Tick /\ Unobserved
    \/ Next

SpecClock == Init /\ [][NextClock]_vars

\* One client that connects, joins a room and sends the texts 1, 2, 3, ...:
\* long enough to fill a history past MAX_HISTORY.
NextHistory ==
    \/ Connect(SocketId(1)) /\ Unobserved
    \/ \E data \in JoinData(SocketId(1)) :
          ~Has(users, SocketId(1)) /\ Join(SocketId(1), data) /\ Unobserved
    \/ Sends < MaxHistorySends /\ SendMessage(SocketId(1), [text |-> Sends + 1]) /\ Unobserved

SpecHistory == Init /\ [][NextHistory]_vars

----
\* Vocabulary of the properties.
Members(k) == Range(rooms[k].users)
RoomsOf(s) == {k \in DOMAIN rooms : s \in Members(k)}
Registered == DOMAIN users
\* the connections an emission list reaches
Recipients(emits) == UNION {emits[i].to : i \in 1..Len(emits)}
\* the connections that get an event ev
RecipientsOf(emits, ev) ==
    UNION {emits[i].to : i \in {j \in 1..Len(emits) : emits[j].ev = ev}}
LastN(seq, n) == SubSeq(seq, Len(seq) - n + 1, Len(seq))
Min(a, b) == IF a < b THEN a ELSE b
\* the events that need a session
UnjoinedEvents == {"send-message", "typing", "stop-typing", "switch-room", "private-message"}
\* the last event came from a connection with a session (none of the events
\* below removes or adds a session, so this reads the same before and after)
LastJoined(ev) == last.ev = ev /\ Has(users, last.id)

\* C1: every connection id in a room's member set is registered, and the
\* Registry records that very room as its current room.
C1_MembersRegistered ==
    \A k \in DOMAIN rooms : \A s \in Members(k) :
        Has(users, s) /\ users[s].room = k

\* C2: a connection id is in the member set of at most one room.
C2_AtMostOneRoom == \A s \in Sockets : Cardinality(RoomsOf(s)) <= 1

\* C3: a room's member set is exactly the set of connections whose most recent
\* membership event (join or switch-room) entered that room and that have not
\* disconnected since.
C3_MembersAreEntered ==
    \A k \in DOMAIN rooms : Members(k) = {s \in Sockets : entered[s] = k}

\* C4: a send-message of a Joined connection is delivered to every connection
\* whose current room is the sender's, the sender included, and to no
\* connection whose current room is another room.
C4_SendReachesRoomOnly ==
    LastJoined("send-message") =>
        LET room == users[last.id].room
            got  == RecipientsOf(sent, "message")
        IN  /\ last.id \in got
            /\ \A s \in Registered :
                  /\ users[s].room = room => s \in got
                  /\ users[s].room # room => s \notin got

\* C5: a send-message of a Joined connection appends exactly one message, of
\* kind user, with the sender's display name and the given text, to the end of
\* the history of the sender's current room, and that message is what the
\* room's connections receive.
C5_SendAppendsOne ==
    [][ (last'.ev = "send-message" /\ Has(users, last'.id)) =>
          LET user   == users[last'.id]
              before == rooms[user.room].messages
              after  == rooms'[user.room].messages
              m      == after[Len(after)]
          IN  /\ Has(rooms, user.room)
              /\ after = IF Len(before) < MAX_HISTORY
                           THEN Append(before, m)
                           ELSE Append(Tail(before), m)
              /\ m.type = "user"
              /\ m.user = user.username
              /\ m.userId = last'.id
              /\ m.text = last'.data.text
              /\ Len(sent') = 1 /\ sent'[1].ev = "message" /\ sent'[1].data = m
    ]_vars

\* C5, the scenario: two connections are in one room, one has sent "hello" as
\* the room's first message and both received it.
C5_Witness ==
    /\ LastJoined("send-message")
    /\ Registered = {SocketId(1), SocketId(2)}
    /\ users[SocketId(1)].room = users[SocketId(2)].room
    /\ Len(rooms[users[last.id].room].messages) = 1
    /\ rooms[users[last.id].room].messages[1].text = "hello"
    /\ sent[1].to = {SocketId(1), SocketId(2)}

\* C6: every room's history has at most MAX_HISTORY messages.
C6_HistoryBounded == \A k \in DOMAIN rooms : Len(rooms[k].messages) <= MAX_HISTORY

\* C6: a room got more than MAX_HISTORY messages and holds MAX_HISTORY of them.
C6_Witness ==
    \E k \in DOMAIN rooms :
        Len(log[k]) > MAX_HISTORY /\ Len(rooms[k].messages) = MAX_HISTORY

\* C7: after T messages a room's history is the last min(MAX_HISTORY, T) of
\* them, oldest first.
C7_HistoryIsLastN ==
    \A k \in DOMAIN rooms :
        rooms[k].messages = LastN(log[k], Min(MAX_HISTORY, Len(log[k])))

\* C7: two messages were evicted, and the oldest kept is the third sent.
C7_Witness ==
    \E k \in DOMAIN rooms :
        /\ Len(log[k]) = MAX_HISTORY + 2
        /\ rooms[k].messages[1] = log[k][3]
        /\ rooms[k].messages[1].text = 3

\* C8: a private-message of a Joined connection reaches the target connection
\* and the sender and no other connection, whatever target id is given.
C8_PrivateReachesTargetOnly ==
    LastJoined("private-message") =>
        LET target == last.data.toId
            got    == RecipientsOf(sent, "private-message")
        IN  /\ last.id \in got
            /\ (target \in Sockets /\ conn[target] = "open") => target \in got
            /\ Recipients(sent) \subseteq {last.id, target}

\* C9: a private-message to a target that is no registered connection gives
\* the sender an UnknownTarget error and no delivery confirmation, and no
\* other connection gets anything.
C9_UnknownTargetReported ==
    (LastJoined("private-message") /\ ~Has(users, last.data.toId)) =>
        /\ last.id \in RecipientsOf(sent, "error")
        /\ last.id \notin RecipientsOf(sent, "private-message")
        /\ Recipients(sent) \subseteq {last.id}

\* C10: send-message, typing, stop-typing, switch-room and private-message of a
\* connection without a session change neither the Registry nor any room's
\* member set or history, and reach no other connection.
C10_UnjoinedChangesNothing ==
    [][ (last'.ev \in UnjoinedEvents /\ ~Has(users, last'.id)) =>
          /\ users' = users
          /\ rooms' = rooms
          /\ Recipients(sent') \subseteq {last'.id}
    ]_vars

\* C10: a connection without a session sent switch-room while another
\* connection was in a room.
C10_Witness ==
    /\ last.ev = "switch-room"
    /\ ~Has(users, last.id)
    /\ conn[last.id] = "open"
    /\ \E s \in Registered : s # last.id /\ s \in Members(users[s].room)

\* Joins, switches and disconnects only, where switch-room may also name the
\* default room 'Tech', so that three rooms are in use at once.
TechSwitchData == [room : RoomNames \cup {<<84, 101, 99, 104>>}]

NextRooms ==
    \/ \E id \in Sockets : Connect(id) /\ Unobserved
    \/ \E id \in Sockets : \E data \in JoinData(id) : Join(id, data) /\ Unobserved
    \/ \E id \in Sockets, data \in TechSwitchData : SwitchRoom(id, data) /\ Unobserved
    \/ \E id \in Sockets : Disconnect(id) /\ Unobserved

SpecRooms == Init /\ [][NextRooms]_vars

\* The typing relay under a clock: joins, typing, stop-typing, disconnects and
\* the passage of time. The server registers no timer (no setTimeout or
\* setInterval anywhere), so time passing is the only step that needs no
\* client, and it is the only step that is fair.
NextTyping ==
    \/ Tick /\ Unobserved
    \/ \E id \in Sockets : Connect(id) /\ Unobserved
    \/ \E id \in Sockets : \E data \in JoinData(id) : Join(id, data) /\ Unobserved
    \/ \E id \in Sockets : Typing(id) /\ Unobserved
    \/ \E id \in Sockets : StopTyping(id) /\ Unobserved
    \/ \E id \in Sockets : Disconnect(id) /\ Unobserved

SpecTyping == Init /\ [][NextTyping]_vars /\ WF_vars(Tick /\ Unobserved)

\* One client, Scripted, sends exactly join, switch-room, disconnect while the
\* other connections send any events at any time in between.
Scripted == SocketId(1)
Others == Sockets \ {Scripted}
\* the scripted client's event ev is recorded with the room key it led to
Scripts(ev, key) ==
    /\ script' = Append(script, [ev |-> ev, room |-> key])
    /\ UNCHANGED inbox
    /\ UNCHANGED apiVars

NextRoundTrip ==
    \/ \E id \in Sockets : Connect(id) /\ Unobserved
    \/ \E data \in JoinData(Scripted) :
          Len(script) = 0 /\ Join(Scripted, data) /\ Scripts("join", users'[Scripted].room)
    \/ \E data \in TechSwitchData :
          Len(script) = 1 /\ SwitchRoom(Scripted, data)
                          /\ Scripts("switch-room", users'[Scripted].room)
    \/ Len(script) = 2 /\ Disconnect(Scripted) /\ Scripts("disconnect", NoRoom)
    \/ \E id \in Others : \E data \in JoinData(id) : Join(id, data) /\ Unobserved
    \/ \E id \in Others, data \in MessageData :
          Sends < MaxSends /\ SendMessage(id, data) /\ Unobserved
    \/ \E id \in Others : Typing(id) /\ Unobserved
    \/ \E id \in Others : StopTyping(id) /\ Unobserved
    \/ \E id \in Others, data \in SwitchData : SwitchRoom(id, data) /\ Unobserved
    \/ \E id \in Others, data \in PrivateData : PrivateMessage(id, data) /\ Unobserved
    \/ \E id \in Others : Disconnect(id) /\ Unobserved

SpecRoundTrip == Init /\ [][NextRoundTrip]_vars

\* The deliveries. Every emit call hands its event to the channel of each
\* connection it addresses, in the order of the calls; the channel keeps that
\* order. n numbers the client events in the order the server handled them,
\* i the emit calls within one handler.
Handled ==
    LET ns == {0} \cup UNION {{inbox[s][p].n : p \in 1..Len(inbox[s])} : s \in Sockets}
    IN  CHOOSE n \in ns : \A m \in ns : m <= n

\* a channel that hands over the newest event first
DeliverNewestFirst(box, emits, n) ==
    [s \in Sockets |->
        LET all == [i \in 1..Len(emits) |->
                      [n |-> n, i |-> i, ev |-> emits[i].ev, to |-> emits[i].to]]
            Mine(e) == s \in e.to
        IN  SelectSeq(all, Mine) \o box[s]]

Deliver(box, emits, n) ==
    [s \in Sockets |->
        LET all == [i \in 1..Len(emits) |->
                      [n |-> n, i |-> i, ev |-> emits[i].ev, to |-> emits[i].to]]
            Mine(e) == s \in e.to
        IN  box[s] \o SelectSeq(all, Mine)]

Delivered ==
    inbox' = Deliver(inbox, sent', Handled + 1) /\ UNCHANGED script /\ UNCHANGED apiVars

\* Runs of at most MaxOrderEvents events that emit, with the deliveries kept.
NextOrder ==
    \/ \E id \in Sockets : Connect(id) /\ Delivered
    \/ \E id \in Sockets : \E data \in JoinData(id) :
          Handled < MaxOrderEvents /\ Join(id, data) /\ Delivered
    \/ \E id \in Sockets, data \in MessageData :
          Handled < MaxOrderEvents /\ SendMessage(id, data) /\ Delivered
    \/ \E id \in Sockets, data \in SwitchData :
          Handled < MaxOrderEvents /\ SwitchRoom(id, data) /\ Delivered
    \/ \E id \in Sockets :
          Handled < MaxOrderEvents /\ Disconnect(id) /\ Delivered

SpecOrder == Init /\ [][NextOrder]_vars

\* The client of SpecHistory, which may also switch to 'General' (from another
\* room, or from 'General' itself): it gets the history of a room that is past
\* MAX_HISTORY.
NextWindow ==
    \/ NextHistory
    \/ SwitchRoom(SocketId(1), [room |-> defaultRooms[1]]) /\ Unobserved

SpecWindow == Init /\ [][NextWindow]_vars

\* class Room on its own: addUser and removeUser called with any id, member or
\* not, on two of the rooms.
TwoRooms == {DefaultKeys[1], DefaultKeys[2]}

RoomAddUser(k, userId) ==
    /\ rooms' = [rooms EXCEPT ![k] = AddUser(@, userId)]
    /\ last' = [ev |-> "addUser", id |-> userId,
                data |-> [room |-> k, member |-> userId \in Range(rooms[k].users)]]
    /\ sent' = <<>>
    /\ UNCHANGED <<conn, socketRooms, users, roomOrder, now, log, entered>>

RoomRemoveUser(k, userId) ==
    /\ rooms' = [rooms EXCEPT ![k] = RemoveUser(@, userId)]
    /\ last' = [ev |-> "removeUser", id |-> userId,
                data |-> [room |-> k, member |-> userId \in Range(rooms[k].users)]]
    /\ sent' = <<>>
    /\ UNCHANGED <<conn, socketRooms, users, roomOrder, now, log, entered>>

NextRoom ==
    \/ \E k \in TwoRooms, userId \in Sockets : RoomAddUser(k, userId) /\ Unobserved
    \/ \E k \in TwoRooms, userId \in Sockets : RoomRemoveUser(k, userId) /\ Unobserved

SpecRoom == Init /\ [][NextRoom]_vars

\* Rooms that are entered again later: connections join, send and switch
\* among 'General', 'Lab' and 'lab' while the clock advances.
NextReuse ==
    \/ Tick /\ Unobserved
    \/ \E id \in Sockets : Connect(id) /\ Unobserved
    \/ \E id \in Sockets : \E data \in JoinData(id) : Join(id, data) /\ Unobserved
    \/ \E id \in Sockets, data \in MessageData :
          Sends < MaxReuseSends /\ SendMessage(id, data) /\ Unobserved
    \/ \E id \in Sockets, data \in SwitchData : SwitchRoom(id, data) /\ Unobserved

SpecReuse == Init /\ [][NextReuse]_vars

----
\* The REST demo: its routes.
\* array.findIndex(x => x.id === id): 0 where JavaScript gives -1
FindIndex(array, id) ==
    IF \E i \in 1..Len(array) : Num(array[i].id) = id
      THEN CHOOSE i \in 1..Len(array) :
              /\ Num(array[i].id) = id
              /\ \A j \in 1..(i - 1) : Num(array[j].id) # id
      ELSE 0
\* array.splice(index, 1)
Splice(array, index) ==
    [i \in 1..(Len(array) - 1) |-> IF i < index THEN array[i] ELSE array[i + 1]]

\* res.status(code).json(body)
Respond(code, body) == res' = [status |-> code, body |-> body]
Error(code, message) == Respond(code, [error |-> message])

\* POST /api/posts that looks the user up after it stored the post
PostPostsStoresFirst(body) ==
    /\ req' = [method |-> "POST", path |-> "/api/posts", body |-> body]
    /\ IF ~Truthy(body.userId) \/ ~Truthy(body.title) \/ ~Truthy(body.content)
         THEN /\ Error(400, "userId, title, and content are required")
              /\ UNCHANGED <<apiUsers, posts, nextUserId, nextPostId>>
         ELSE LET newPost == [id |-> nextPostId,
                              userId |-> IF parseInt(body.userId) = NaN THEN 0
                                         ELSE parseInt(body.userId).num,
                              title |-> body.title, content |-> body.content,
                              createdAt |-> now]
              IN  /\ nextPostId' = nextPostId + 1
                  /\ posts' = Append(posts, newPost)
                  /\ IF FindIndex(apiUsers, parseInt(body.userId)) = 0
                       THEN Error(400, "Invalid userId")
                       ELSE Respond(201, [data |-> newPost])
                  /\ UNCHANGED <<apiUsers, nextUserId>>
    /\ UNCHANGED chatVars

\* app.post('/api/posts')
PostPosts(body) ==
    /\ req' = [method |-> "POST", path |-> "/api/posts", body |-> body]
    /\ IF ~Truthy(body.userId) \/ ~Truthy(body.title) \/ ~Truthy(body.content)
         THEN /\ Error(400, "userId, title, and content are required")
              /\ UNCHANGED <<apiUsers, posts, nextUserId, nextPostId>>
         ELSE IF FindIndex(apiUsers, parseInt(body.userId)) = 0
                THEN /\ Error(400, "Invalid userId")
                     /\ UNCHANGED <<apiUsers, posts, nextUserId, nextPostId>>
                ELSE LET newPost == [id |-> nextPostId,
                                     userId |-> parseInt(body.userId).num,
                                     title |-> body.title, content |-> body.content,
                                     createdAt |-> now]
                     IN  /\ nextPostId' = nextPostId + 1
                         /\ posts' = Append(posts, newPost)
                         /\ Respond(201, [data |-> newPost])
                         /\ UNCHANGED <<apiUsers, nextUserId>>
    /\ UNCHANGED chatVars

\* app.delete('/api/posts/:id')
DeletePosts(id) ==
    /\ req' = [method |-> "DELETE", path |-> "/api/posts/:id", id |-> id]
    /\ LET postIndex == FindIndex(posts, parseInt(id))
       IN  IF postIndex = 0
             THEN /\ Error(404, "Post not found")
                  /\ UNCHANGED posts
             ELSE /\ posts' = Splice(posts, postIndex)
                  /\ res' = [status |-> 204]
    /\ UNCHANGED <<apiUsers, nextUserId, nextPostId>>
    /\ UNCHANGED chatVars

\* POST /api/users that takes the id before it looks at the body
PostUsersTakesIdFirst(body) ==
    /\ req' = [method |-> "POST", path |-> "/api/users", body |-> body]
    /\ nextUserId' = nextUserId + 1
    /\ IF ~Truthy(body.name) \/ ~Truthy(body.email)
         THEN /\ Error(400, "Name and email are required")
              /\ UNCHANGED apiUsers
         ELSE LET newUser == [id |-> nextUserId, name |-> body.name, email |-> body.email,
                              role |-> IF Truthy(body.role) THEN body.role ELSE Text("user")]
              IN  /\ apiUsers' = Append(apiUsers, newUser)
                  /\ Respond(201, [data |-> newUser])
    /\ UNCHANGED <<posts, nextPostId>>
    /\ UNCHANGED chatVars

\* app.post('/api/users')
PostUsers(body) ==
    /\ req' = [method |-> "POST", path |-> "/api/users", body |-> body]
    /\ IF ~Truthy(body.name) \/ ~Truthy(body.email)
         THEN /\ Error(400, "Name and email are required")
              /\ UNCHANGED <<apiUsers, nextUserId>>
         ELSE LET newUser == [id |-> nextUserId, name |-> body.name, email |-> body.email,
                              role |-> IF Truthy(body.role) THEN body.role ELSE Text("user")]
              IN  /\ nextUserId' = nextUserId + 1
                  /\ apiUsers' = Append(apiUsers, newUser)
                  /\ Respond(201, [data |-> newUser])
    /\ UNCHANGED <<posts, nextPostId>>
    /\ UNCHANGED chatVars

\* DELETE /api/users/:id that gives the id of the newest user back
DeleteUsersGivesIdBack(id) ==
    /\ req' = [method |-> "DELETE", path |-> "/api/users/:id", id |-> id]
    /\ LET userIndex == FindIndex(apiUsers, parseInt(id))
       IN  IF userIndex = 0
             THEN /\ Error(404, "User not found")
                  /\ UNCHANGED <<apiUsers, nextUserId>>
             ELSE /\ apiUsers' = Splice(apiUsers, userIndex)
                  /\ nextUserId' = IF apiUsers[userIndex].id = nextUserId - 1
                                     THEN nextUserId - 1 ELSE nextUserId
                  /\ res' = [status |-> 204]
    /\ UNCHANGED <<posts, nextPostId>>
    /\ UNCHANGED chatVars

\* app.delete('/api/users/:id')
DeleteUsers(id) ==
    /\ req' = [method |-> "DELETE", path |-> "/api/users/:id", id |-> id]
    /\ LET userIndex == FindIndex(apiUsers, parseInt(id))
       IN  IF userIndex = 0
             THEN /\ Error(404, "User not found")
                  /\ UNCHANGED apiUsers
             ELSE /\ apiUsers' = Splice(apiUsers, userIndex)
                  /\ res' = [status |-> 204]
    /\ UNCHANGED <<posts, nextUserId, nextPostId>>
    /\ UNCHANGED chatVars

\* Request data: a userId that is missing, zero, a known id as a number or as
\* a string, with trailing letters, no number at all, or 9999 as in the tests.
UserIdValues ==
    {Undefined, Num(0), Num(1), Num(9999), Str(<<50>>), Str(<<51, 120>>), Str(<<120>>)}
PostBodies ==
    [userId : UserIdValues, title : {Undefined, Text("Test Post")},
     content : {Text(""), Text("This is a test post")}]
UserBodies ==
    [name : {Undefined, Text("Test User")}, email : {Text(""), Text("test@example.com")},
     role : {Undefined}]
IdParams == {Str(<<48 + n>>) : n \in 1..4} \cup {Str(<<120>>)}

NextApi ==
    \/ \E body \in PostBodies : nextPostId < 3 + MaxApiCreates /\ PostPosts(body)
    \/ \E id \in IdParams : DeletePosts(id)
    \/ \E body \in UserBodies : nextUserId < 4 + MaxApiCreates /\ PostUsers(body)
    \/ \E id \in IdParams : DeleteUsers(id)

SpecApi == Init /\ [][NextApi]_vars

\* app.put('/api/users/:id')
PutUsers(id, body) ==
    /\ req' = [method |-> "PUT", path |-> "/api/users/:id", id |-> id, body |-> body]
    /\ LET userIndex == FindIndex(apiUsers, parseInt(id))
       IN  IF userIndex = 0
             THEN /\ Error(404, "User not found")
                  /\ UNCHANGED apiUsers
             ELSE LET old     == apiUsers[userIndex]
                      updated == [old EXCEPT
                                    !.name  = IF Truthy(body.name) THEN body.name ELSE @,
                                    !.email = IF Truthy(body.email) THEN body.email ELSE @,
                                    !.role  = IF Truthy(body.role) THEN body.role ELSE @]
                  IN  /\ apiUsers' = [apiUsers EXCEPT ![userIndex] = updated]
                      /\ Respond(200, [data |-> updated])
    /\ UNCHANGED <<posts, nextUserId, nextPostId>>
    /\ UNCHANGED chatVars

\* app.put('/api/posts/:id')
PutPosts(id, body) ==
    /\ req' = [method |-> "PUT", path |-> "/api/posts/:id", id |-> id, body |-> body]
    /\ LET postIndex == FindIndex(posts, parseInt(id))
       IN  IF postIndex = 0
             THEN /\ Error(404, "Post not found")
                  /\ UNCHANGED posts
             ELSE LET old     == posts[postIndex]
                      updated == [k \in DOMAIN old \cup {"updatedAt"} |->
                                    IF k = "updatedAt" THEN now
                                    ELSE IF k = "title" /\ Truthy(body.title) THEN body.title
                                    ELSE IF k = "content" /\ Truthy(body.content)
                                           THEN body.content
                                    ELSE old[k]]
                  IN  /\ posts' = [posts EXCEPT ![postIndex] = updated]
                      /\ Respond(200, [data |-> updated])
    /\ UNCHANGED <<apiUsers, nextUserId, nextPostId>>
    /\ UNCHANGED chatVars

\* Creates, updates and deletes of users and posts: complete and incomplete
\* bodies, the ids of the first and the last initial user and of the first
\* user to be created (for posts: of the first initial post and of the first
\* two posts to be created).
CrudIds == {Str(<<49>>), Str(<<51>>), Str(<<52>>)}
CrudPostBodies ==
    [userId : {Num(1), Str(<<52>>)}, title : {Text("Test Post")},
     content : {Text(""), Text("This is a test post")}]
UserUpdates == [name : {Text("Updated Name")}, email : {Undefined}, role : {Undefined}]
PostUpdates == [title : {Text("Updated Title")}, content : {Undefined}]

NextCrud ==
    \/ \E body \in UserBodies : nextUserId < 4 + MaxCrudCreates /\ PostUsers(body)
    \/ \E id \in CrudIds, body \in UserUpdates : PutUsers(id, body)
    \/ \E id \in CrudIds : DeleteUsers(id)
    \/ \E body \in CrudPostBodies : nextPostId < 3 + MaxCrudCreates /\ PostPosts(body)
    \/ \E id \in CrudIds, body \in PostUpdates : PutPosts(id, body)
    \/ \E id \in CrudIds : DeletePosts(id)

SpecCrud == Init /\ [][NextCrud]_vars

\* More vocabulary.
\* the connections whose current room, by the Registry us, is k
InRoom(us, k) == {s \in DOMAIN us : us[s].room = k}
\* the member set of room k in the Room Store rs, empty if there is no such room
MembersIn(rs, k) == IF Has(rs, k) THEN Range(rs[k].users) ELSE {}
\* the ids of the sessions listed in a users-update payload
ListedIds(data) ==
    {data.users[i].id : i \in {j \in 1..Len(data.users) : data.users[j] # Undefined}}
\* s gets the system message tpl about username
GotSystem(emits, s, tpl, username) ==
    \E i \in 1..Len(emits) :
        /\ emits[i].ev = "message"
        /\ s \in emits[i].to
        /\ emits[i].data.type = "system"
        /\ emits[i].data.text.tpl = tpl
        /\ emits[i].data.text.username = username
\* s gets a users-update that lists id (listed = TRUE) or does not (FALSE)
GotPresence(emits, s, id, listed) ==
    \E i \in 1..Len(emits) :
        /\ emits[i].ev = "users-update"
        /\ s \in emits[i].to
        /\ (id \in ListedIds(emits[i].data)) = listed
        /\ emits[i].data.count = Len(emits[i].data.users)

\* C11: a connection that sends an event invalid for its lifecycle state
\* (before join) gets an error event, and nobody else gets anything.
C11_InvalidEventReported ==
    (last.ev \in UnjoinedEvents /\ ~Has(users, last.id)) =>
        /\ RecipientsOf(sent, "error") = {last.id}
        /\ Recipients(sent) \subseteq {last.id}

\* C12: a join of a connection that is already registered is rejected as an
\* error: the session, every member set and every history stay as they were
\* and nothing is broadcast.
C12_RejoinRejected ==
    [][ (last'.ev = "join" /\ Has(users, last'.id)) =>
          /\ users' = users
          /\ rooms' = rooms
          /\ last'.id \in RecipientsOf(sent', "error")
          /\ Recipients(sent') \subseteq {last'.id}
    ]_vars

\* C14: when an Unjoined connection joins a room whose key is not in the Room
\* Store, the join creates the room, its member count becomes 1, and the
\* rooms-list sent to the joiner has that room with member count 1.
C14_JoinCreatesRoom ==
    [][ (last'.ev = "join" /\ ~Has(users, last'.id) /\ "room" \in DOMAIN last'.data
            /\ ~Has(rooms, toLowerCase(last'.data.room))) =>
          LET id  == last'.id
              key == toLowerCase(last'.data.room)
          IN  /\ Has(rooms', key)
              /\ rooms'[key].name = last'.data.room
              /\ rooms'[key].users = <<id>>
              /\ GetUserCount(rooms'[key]) = 1
              /\ \E i \in 1..Len(sent') :
                    /\ sent'[i].ev = "rooms-list"
                    /\ sent'[i].to = {id}
                    /\ \E n \in 1..Len(sent'[i].data.rooms) :
                          /\ sent'[i].data.rooms[n].name = last'.data.room
                          /\ sent'[i].data.rooms[n].userCount = 1
    ]_vars

\* C14: a first join has just created a room that is no default room, and the
\* joiner is its only member.
C14_Witness ==
    /\ last.ev = "join"
    /\ "room" \in DOMAIN last.data
    /\ toLowerCase(last.data.room) \notin Range(DefaultKeys)
    /\ Has(rooms, toLowerCase(last.data.room))
    /\ rooms[toLowerCase(last.data.room)].name = last.data.room
    /\ rooms[toLowerCase(last.data.room)].users = <<last.id>>
    /\ RoomsOf(last.id) = {toLowerCase(last.data.room)}

\* C17: after switch-room(newRoom) of a Joined connection whose current room is
\* another room, the connection is out of the old room's member set and in the
\* new room's (created if need be), the Registry records the new key, and no
\* other connection's membership changes.
C17_SwitchMoves ==
    [][ (last'.ev = "switch-room" /\ Has(users, last'.id)
            /\ users[last'.id].room # toLowerCase(last'.data.room)) =>
          LET id      == last'.id
              oldRoom == users[id].room
              newRoom == toLowerCase(last'.data.room)
          IN  /\ id \notin MembersIn(rooms', oldRoom)
              /\ Has(rooms', newRoom)
              /\ id \in MembersIn(rooms', newRoom)
              /\ Has(users', id) /\ users'[id].room = newRoom
              /\ DOMAIN users' = DOMAIN users
              /\ \A s \in DOMAIN users \ {id} : users'[s] = users[s]
              /\ \A k \in DOMAIN rooms' :
                    MembersIn(rooms', k) \ {id} = MembersIn(rooms, k) \ {id}
    ]_vars

\* C17: a connection has switched into a room while another connection stayed
\* behind in the room it left.
C17_Witness ==
    /\ LastJoined("switch-room")
    /\ Len(sent) = 5
    /\ last.id \in Members(users[last.id].room)
    /\ \E y \in Registered \ {last.id} :
          /\ y \in sent[2].to /\ y \notin sent[5].to
          /\ users[y].room # users[last.id].room
          /\ y \in Members(users[y].room)
          /\ last.id \notin Members(users[y].room)

\* C18: on switch-room from room O to room N every connection remaining in O
\* gets the leave announcement and a presence update without the switcher,
\* every other connection in N gets the join announcement and a presence
\* update with the switcher, the switcher gets N's history, and no connection
\* whose current room is neither O nor N gets anything.
C18_SwitchFanout ==
    [][ (last'.ev = "switch-room" /\ Has(users, last'.id)
            /\ users[last'.id].room # toLowerCase(last'.data.room)) =>
          LET id   == last'.id
              name == users[id].username
              O    == users[id].room
              N    == toLowerCase(last'.data.room)
          IN  /\ \A s \in InRoom(users', O) :
                    /\ GotSystem(sent', s, "has left the room", name)
                    /\ GotPresence(sent', s, id, FALSE)
              /\ \A s \in InRoom(users', N) \ {id} :
                    /\ GotSystem(sent', s, "has joined the room", name)
                    /\ GotPresence(sent', s, id, TRUE)
              /\ \E i \in 1..Len(sent') :
                    /\ sent'[i].ev = "room-history"
                    /\ id \in sent'[i].to
                    /\ sent'[i].data.messages = rooms'[N].messages
              /\ \A s \in Recipients(sent') \ {id} :
                    Has(users', s) /\ users'[s].room \in {O, N}
    ]_vars

\* C19: a disconnect of a Joined connection removes it from its room's member
\* set and from the Registry, every connection remaining in that room gets the
\* leave announcement and a presence update without the leaver, and no
\* connection in another room gets anything; a disconnect of a connection
\* that never joined changes nothing and emits nothing.
C19_DisconnectFanout ==
    [][ (last'.ev = "disconnect") =>
          LET id == last'.id
          IN  IF Has(users, id)
                THEN LET R    == users[id].room
                         name == users[id].username
                     IN  /\ id \notin MembersIn(rooms', R)
                         /\ ~Has(users', id)
                         /\ \A s \in InRoom(users', R) :
                               /\ GotSystem(sent', s, "has left the room", name)
                               /\ GotPresence(sent', s, id, FALSE)
                         /\ Recipients(sent') \subseteq InRoom(users', R)
                ELSE /\ users' = users
                     /\ rooms' = rooms
                     /\ sent' = <<>>
    ]_vars

\* C20: typing (stop-typing) of a Joined connection delivers user-typing
\* (user-stop-typing) to every connection of the sender's current room but the
\* sender, and to no other connection.
C20_TypingFanout ==
    \A ev \in {"typing", "stop-typing"} :
        LastJoined(ev) =>
            LET others == InRoom(users, users[last.id].room) \ {last.id}
            IN  /\ RecipientsOf(sent, "user-" \o ev) = others
                /\ Recipients(sent) = others

\* c has just sent typing as a Joined connection with another connection in
\* its current room, at a time after which the clock still advances
TypingStarted(c) ==
    /\ last.ev = "typing" /\ last.id = c
    /\ now < MaxClock
    /\ Has(users, c)
    /\ InRoom(users, users[c].room) \ {c} # {}
\* user-stop-typing about c is being delivered to some other connection
StopTypingSeen(c) ==
    \E i \in 1..Len(sent) :
        /\ sent[i].ev = "user-stop-typing"
        /\ sent[i].data.userId = c
        /\ sent[i].to \ {c} # {}

\* C15: after typing from a connection, unless a further typing or stop-typing
\* from it follows (or it leaves, or is left alone in its room), the other
\* members of its room eventually get user-stop-typing, even if no further
\* client event arrives.
C15_TypingExpires ==
    \A c \in Sockets :
        [](TypingStarted(c) =>
              <>(\/ StopTypingSeen(c)
                 \/ ~Has(users, c)
                 \/ (Has(users, c) /\ InRoom(users, users[c].room) \ {c} = {})
                 \/ (~TypingStarted(c) /\ <>(last.id = c /\ last.ev \in {"typing", "stop-typing"}))))

\* C13: for any rooms A and B and any interleaving with other connections'
\* events, a connection that joins A, switches to B and then disconnects is in
\* no room's member set and has no Registry entry.
C13_RoundTripLeavesNothing ==
    Len(script) = 3 =>
        /\ RoomsOf(Scripted) = {}
        /\ ~Has(users, Scripted)

\* C13: the scripted client went through two different rooms, is gone, and
\* another connection is registered in the room it joined first.
C13_Witness ==
    /\ Len(script) = 3
    /\ script[1].room # script[2].room
    /\ \E s \in Others :
          /\ Has(users, s)
          /\ users[s].room = script[1].room
          /\ s \in Members(script[1].room)

\* the place of a delivered event in the server's processing order
Stamp(e) == <<e.n, e.i>>
Stamps(box) == {Stamp(box[p]) : p \in 1..Len(box)}
Earlier(e, f) == e.n < f.n \/ (e.n = f.n /\ e.i < f.i)
\* the events of box that the other connection got too, in the order of box
CommonOrder(box, other) ==
    LET Shared(e) == Stamp(e) \in Stamps(other)
        both == SelectSeq(box, Shared)
    IN  [p \in 1..Len(both) |-> Stamp(both[p])]

C21_JoinFanout ==
    [][ (last'.ev = "join" /\ ~Has(users, last'.id)) =>
          LET id   == last'.id
              key  == users'[id].room
              name == users'[id].username
          IN  /\ \A ev \in {"room-history", "rooms-list"} : RecipientsOf(sent', ev) = {id}
              /\ GotSystem(sent', id, "Welcome to", name)
              /\ \A s \in Sockets \ {id} : ~GotSystem(sent', s, "Welcome to", name)
              /\ \A s \in InRoom(users', key) \ {id} :
                    GotSystem(sent', s, "has joined the room", name)
              /\ \A s \in Recipients(sent') \ {id} :
                    Has(users', s) /\ users'[s].room = key
    ]_vars

\* the events that are no send-message
OtherEvents == {"join", "switch-room", "disconnect", "typing", "stop-typing", "private-message"}

\* C22: join, switch-room, disconnect, typing, stop-typing and private-message
\* leave every room's history as it was, and every stored message has type
\* user.
C22_OnlySendChangesHistory ==
    [][ /\ last'.ev \in OtherEvents =>
              \A k \in DOMAIN rooms' :
                  rooms'[k].messages = IF Has(rooms, k) THEN rooms[k].messages ELSE <<>>
        /\ \A k \in DOMAIN rooms' : \A i \in 1..Len(rooms'[k].messages) :
              rooms'[k].messages[i].type = "user"
    ]_vars

\* C22: a private message has just been relayed by a connection whose room has
\* a stored message, and the room's history is still what was sent to it.
C22_Witness ==
    /\ LastJoined("private-message")
    /\ Len(sent) = 2
    /\ Has(rooms, users[last.id].room)
    /\ Len(rooms[users[last.id].room].messages) >= 1
    /\ rooms[users[last.id].room].messages = log[users[last.id].room]

\* C24: a send-message leaves the history of every room but the sender's as it
\* was: the message is stored in exactly one room's history.
C24_SendTouchesOneRoom ==
    [][ (last'.ev = "send-message" /\ Has(users, last'.id)) =>
          /\ DOMAIN rooms' = DOMAIN rooms
          /\ \A k \in DOMAIN rooms \ {users[last'.id].room} : rooms'[k] = rooms[k]
          /\ {k \in DOMAIN rooms : rooms'[k].messages # rooms[k].messages}
                = {users[last'.id].room}
    ]_vars

\* C24: a message has just been stored in the sender's room while another room
\* holds a message of its own.
C24_Witness ==
    /\ LastJoined("send-message")
    /\ Has(rooms, users[last.id].room)
    /\ Len(rooms[users[last.id].room].messages) = 1
    /\ \E k \in DOMAIN rooms \ {users[last.id].room} : Len(rooms[k].messages) = 1

C25_RoomsOnlyGrow ==
    [][ /\ Range(DefaultKeys) \subseteq DOMAIN rooms
        /\ Cardinality(Range(DefaultKeys)) = 4
        /\ DOMAIN rooms \subseteq DOMAIN rooms'
    ]_vars

\* C25: the only member of a room created by a join has disconnected, nobody
\* is registered any more, and the room is still in the Room Store.
C25_Witness ==
    /\ last.ev = "disconnect"
    /\ Registered = {}
    /\ \E k \in DOMAIN rooms \ Range(DefaultKeys) : Members(k) = {}
    /\ \A k \in DOMAIN rooms : Members(k) = {}

\* two room names that differ at most in the case of their letters
SameIgnoringCase(a, b) ==
    /\ Len(a) = Len(b)
    /\ \A i \in 1..Len(a) :
          \/ a[i] = b[i]
          \/ a[i] \in 65..90 /\ b[i] = a[i] + 32
          \/ b[i] \in 65..90 /\ a[i] = b[i] + 32

\* C26: room names that differ only in letter case are one room: no two keys of
\* the Room Store differ only in case, and a join or switch-room puts the
\* connection into the member set of the one room whose key matches the name
\* whatever its case.
C26_CaseInsensitiveRooms ==
    /\ \A k1, k2 \in DOMAIN rooms : SameIgnoringCase(k1, k2) => k1 = k2
    /\ \A ev \in {"join", "switch-room"} :
          (LastJoined(ev) /\ "room" \in DOMAIN last.data) =>
              /\ {k \in DOMAIN rooms : SameIgnoringCase(k, last.data.room)}
                    = {users[last.id].room}
              /\ last.id \in Members(users[last.id].room)

\* C26: a connection has entered, under a name in another case, the room that
\* another connection created, and both are members of the one room, which
\* holds a message.
C26_Witness ==
    /\ \E ev \in {"join", "switch-room"} : LastJoined(ev)
    /\ "room" \in DOMAIN last.data
    /\ LET key == users[last.id].room
       IN  /\ rooms[key].name # last.data.room
           /\ SameIgnoringCase(rooms[key].name, last.data.room)
           /\ Cardinality(Members(key)) = 2
           /\ Len(rooms[key].messages) >= 1
           /\ \A s \in Members(key) : Has(users, s) /\ users[s].room = key

\* C27: message ids increase with every message created, so no two messages
\* share an id, also when they are created at the same clock instant: within a
\* room the ids of the messages ever stored increase strictly, and no id
\* occurs twice in any rooms.
C27_IdsIncrease ==
    /\ \A k \in DOMAIN log : \A i, j \in 1..Len(log[k]) :
          i < j => log[k][i].id < log[k][j].id
    /\ \A k1, k2 \in DOMAIN log : \A i \in 1..Len(log[k1]) : \A j \in 1..Len(log[k2]) :
          log[k1][i].id = log[k2][j].id => (k1 = k2 /\ i = j)

\* C28: removing a connection from a room's member set a second time leaves
\* the room as the first removal left it, and removing a connection that is no
\* member leaves the room unchanged (and is no error).
C28_RemoveIdempotent ==
    [][ last'.ev = "removeUser" =>
          LET k == last'.data.room
              s == last'.id
          IN  /\ s \notin Range(rooms[k].users) => rooms' = rooms
              /\ RemoveUser(rooms'[k], s) = rooms'[k]
              /\ Range(rooms'[k].users) = Range(rooms[k].users) \ {s}
    ]_vars

\* C28: removeUser has just been called for an id that was no member of a room
\* that has a member.
C28_Witness ==
    /\ last.ev = "removeUser"
    /\ ~last.data.member
    /\ Members(last.data.room) # {}

\* C29: every users-update is the membership of its room R when it is emitted:
\* its list has one entry per member of R and no other, each entry is the
\* registered session of that member (none undefined, none of a connection
\* whose session is in another room), and its count is the size of R's member
\* set.
C29_PresenceIsCurrent ==
    \A i \in 1..Len(sent) :
        sent[i].ev = "users-update" =>
            LET d == sent[i].data
            IN  /\ \A j \in 1..Len(d.users) : d.users[j] # Undefined
                /\ \E k \in DOMAIN rooms :
                      /\ [j \in 1..Len(d.users) |-> d.users[j].id] = rooms[k].users
                      /\ d.count = Cardinality(Members(k))
                      /\ \A j \in 1..Len(d.users) :
                            /\ Has(users, d.users[j].id)
                            /\ users[d.users[j].id] = d.users[j]
                            /\ d.users[j].room = k

\* C30: POST /api/posts with a userId that is the id of no stored user is
\* answered with status 400 and an error body, and leaves the posts and the
\* next post id as they were.
C30_PostWithUnknownUserRejected ==
    [][ (/\ req'.method = "POST" /\ req'.path = "/api/posts"
         /\ \A i \in 1..Len(apiUsers) : Num(apiUsers[i].id) # parseInt(req'.body.userId)) =>
          /\ res'.status = 400
          /\ "error" \in DOMAIN res'.body
          /\ posts' = posts
          /\ nextPostId' = nextPostId
    ]_vars

\* C30: after a post was created and user 2 deleted, a complete POST /api/posts
\* for user '2' has been refused as an invalid userId.
C30_Witness ==
    /\ req.method = "POST" /\ req.path = "/api/posts"
    /\ req.body.userId = Str(<<50>>)
    /\ Truthy(req.body.title) /\ Truthy(req.body.content)
    /\ res.status = 400
    /\ res.body.error = "Invalid userId"
    /\ Len(posts) = 3
    /\ nextPostId = 4
    /\ \A i \in 1..Len(apiUsers) : apiUsers[i].id # 2

\* C31: POST /api/users without a name or without an email is answered with
\* status 400 and an error body, and leaves the users and the next user id as
\* they were.
C31_IncompleteUserRejected ==
    [][ (/\ req'.method = "POST" /\ req'.path = "/api/users"
         /\ (~Truthy(req'.body.name) \/ ~Truthy(req'.body.email))) =>
          /\ res'.status = 400
          /\ "error" \in DOMAIN res'.body
          /\ apiUsers' = apiUsers
          /\ nextUserId' = nextUserId
    ]_vars

\* C31: after one user was created, a POST /api/users with a name and an empty
\* email has been refused, and the next id is still the one after that user's.
C31_Witness ==
    /\ req.method = "POST" /\ req.path = "/api/users"
    /\ Truthy(req.body.name) /\ ~Truthy(req.body.email)
    /\ res.status = 400
    /\ res.body.error = "Name and email are required"
    /\ Len(apiUsers) = 4
    /\ apiUsers[4].id = 4
    /\ nextUserId = 5

\* C32: the mutations of an event are complete before its first emission, so
\* every users-update that an event delivers to somebody describes a room as
\* the Registry and the Room Store hold it once the event is handled.
C32_FanoutAfterMutation ==
    [][ \A i \in 1..Len(sent') :
          (sent'[i].ev = "users-update" /\ sent'[i].to # {}) =>
             \E k \in DOMAIN rooms' : sent'[i].data = UsersUpdate(rooms'[k], users')
    ]_vars

\* C33: a join or a switch-room into a room key that exists already keeps that
\* room: its display name, creation time and history stay, its members stay
\* and the joining connection is one of them; no room is created or replaced.
C33_ExistingRoomReused ==
    [][ LET id  == last'.id
            key == toLowerCase(IF "room" \in DOMAIN last'.data THEN last'.data.room
                               ELSE DefaultJoinRoom)
        IN  (/\ last'.ev \in {"join", "switch-room"}
             /\ last'.ev = "switch-room" => id \in DOMAIN users
             /\ key \in DOMAIN rooms) =>
              /\ DOMAIN rooms' = DOMAIN rooms
              /\ roomOrder' = roomOrder
              /\ rooms'[key].name = rooms[key].name
              /\ rooms'[key].createdAt = rooms[key].createdAt
              /\ rooms'[key].messages = rooms[key].messages
              /\ Range(rooms'[key].users) = Range(rooms[key].users) \cup {id}
    ]_vars

\* C33: the second connection has joined as 'lab' the room that the first one
\* created as 'Lab' at time 0 and wrote to; at time 1 the room still has its
\* name, its creation time, its message and both members.
C33_Witness ==
    LET key == toLowerCase(<<76, 97, 98>>)
    IN  /\ last.ev = "join" /\ last.id = SocketId(2)
        /\ "room" \in DOMAIN last.data
        /\ last.data.room = key
        /\ now = 1
        /\ Has(rooms, key)
        /\ rooms[key].name = <<76, 97, 98>>
        /\ rooms[key].createdAt = 0
        /\ Len(rooms[key].messages) = 1
        /\ rooms[key].users = <<SocketId(1), SocketId(2)>>

\* C34: every registered session is a member of the room that its record
\* names as its current room.
C34_SessionInItsRoom ==
    \A s \in DOMAIN users :
        /\ Has(rooms, users[s].room)
        /\ s \in Range(rooms[users[s].room].users)

\* C34: two sessions are registered, the first one has just switched to 'Tech'
\* from the room where the second one still is.
C34_Witness ==
    /\ last.ev = "switch-room" /\ last.id = SocketId(1)
    /\ DOMAIN users = {SocketId(1), SocketId(2)}
    /\ users[SocketId(1)].room = toLowerCase(defaultRooms[3])
    /\ users[SocketId(2)].room = toLowerCase(<<76, 97, 98>>)
    /\ SocketId(1) \in Range(rooms[toLowerCase(defaultRooms[3])].users)
    /\ SocketId(1) \notin Range(rooms[toLowerCase(<<76, 97, 98>>)].users)

\* C35: the current room of every registered session is a key of the Room
\* Store, and so every send-message of a registered session finds its room and
\* appends to its history.
C35_CurrentRoomExists ==
    /\ [](\A s \in DOMAIN users : Has(rooms, users[s].room))
    /\ [][ (last'.ev = "send-message" /\ last'.id \in DOMAIN users) =>
             /\ Has(rooms, users[last'.id].room)
             /\ rooms'[users[last'.id].room].messages =
                   Append(rooms[users[last'.id].room].messages, sent'[1].data)
       ]_vars

\* C35: the only registered session, in the room 'lab' that was created on
\* demand, has sent a message after the other connection closed; the message
\* is in the history of 'lab'.
C35_Witness ==
    LET key == toLowerCase(<<76, 97, 98>>)
    IN  /\ last.ev = "send-message" /\ last.id = SocketId(1)
        /\ DOMAIN users = {SocketId(1)}
        /\ users[SocketId(1)].room = key
        /\ entered[SocketId(1)] = key
        /\ conn[SocketId(2)] = "closed"
        /\ Has(rooms, key)
        /\ Len(rooms[key].messages) = 1
        /\ rooms[key].messages[1].userId = SocketId(1)

\* C36: for every room key, the connections subscribed to the broadcast group
\* of that key are the members of the room.
C36_GroupsAreMembers ==
    \A k \in DOMAIN rooms : InGroup(socketRooms, k) = Range(rooms[k].users)

\* C37: a switch-room into the room the session is in already leaves the
\* Registry, the member set of every room and every history as they were, the
\* connection being in its room's member list once; every other member of
\* that room gets the leave announcement and, after it, the join announcement.
C37_SwitchToSameRoom ==
    [][ LET id == last'.id
        IN  (/\ last'.ev = "switch-room"
             /\ id \in DOMAIN users
             /\ toLowerCase(last'.data.room) = users[id].room) =>
              LET key  == users[id].room
                  name == users[id].username
              IN  /\ users' = users
                  /\ DOMAIN rooms' = DOMAIN rooms
                  /\ \A k \in DOMAIN rooms :
                        /\ Range(rooms'[k].users) = Range(rooms[k].users)
                        /\ rooms'[k].messages = rooms[k].messages
                  /\ Cardinality({i \in 1..Len(rooms'[key].users) :
                                     rooms'[key].users[i] = id}) = 1
                  /\ \A m \in Range(rooms[key].users) \ {id} :
                        \E i, j \in 1..Len(sent') :
                            /\ i < j
                            /\ sent'[i].ev = "message" /\ m \in sent'[i].to
                            /\ sent'[i].data = HasLeft(name, now)
                            /\ sent'[j].ev = "message" /\ m \in sent'[j].to
                            /\ sent'[j].data = HasJoined(name, now)
    ]_vars

\* the ids of the records of an array
Ids(array) == {array[i].id : i \in 1..Len(array)}
IdsIncrease(array) == \A i, j \in 1..Len(array) : i < j => array[i].id < array[j].id

\* C38: no two stored users and no two stored posts share an id, and every
\* stored id is below the next id; the next ids never go down, and a record
\* that was not stored before has the next id, which then goes up by one: so
\* each new id is above every id assigned before, deleted or not.
C38_IdsNeverReused ==
    /\ [](/\ IdsIncrease(apiUsers) /\ IdsIncrease(posts)
          /\ \A id \in Ids(apiUsers) : id < nextUserId
          /\ \A id \in Ids(posts) : id < nextPostId)
    /\ [][ /\ nextUserId' >= nextUserId
           /\ nextPostId' >= nextPostId
           /\ \A id \in Ids(apiUsers') \ Ids(apiUsers) :
                 id = nextUserId /\ nextUserId' = nextUserId + 1
           /\ \A id \in Ids(posts') \ Ids(posts) :
                 id = nextPostId /\ nextPostId' = nextPostId + 1
       ]_vars

\* C38: user 4 and post 3 were created and deleted, user 1 was updated, post 4
\* was created, and the user created last has got the id 5.
C38_Witness ==
    /\ req.method = "POST" /\ req.path = "/api/users"
    /\ res.status = 201
    /\ res.body.data.id = 5
    /\ Ids(apiUsers) = {1, 2, 3, 5}
    /\ apiUsers[1].name = Text("Updated Name")
    /\ nextUserId = 6
    /\ Ids(posts) = {1, 2, 4}
    /\ nextPostId = 5

\* C39: the userId of every stored post is the id of a stored user.
C39_PostsHaveUsers ==
    \A i \in 1..Len(posts) : posts[i].userId \in Ids(apiUsers)

====
